---- MODULE Spec2Model ----
(***************************************************************************)
(* A model of the diaapi2 backend: the Database data-access layer          *)
(* (database/models.py) over its two storage backends, and the two HTTP    *)
(* facades built on it (api/main.py + api/admin.py for FastAPI,            *)
(* render_server.py for Flask).                                            *)
(*                                                                         *)
(* Values.  A Python value that may be None, a datetime or a str is a      *)
(* record [kind, t]: kind "none" is None, "datetime" a datetime object of  *)
(* the instant t, "str" the ISO-8601 text of the instant t, "empty" the    *)
(* empty string and "badstr" a non-empty string that is no ISO-8601 date.  *)
(* Instants are integers (days).                                           *)
(***************************************************************************)
EXTENDS Integers, Sequences, FiniteSets, TLC

VARIABLES
    is_postgres,        \* Database.is_postgres: which backend this process uses
    users,              \* the rows of table users
    users_id_seq,       \* the last value the users id generator handed out
    registration_temp,  \* the rows of table registration_temp
    payments,           \* the rows of table payments
    payments_id_seq,    \* the last value the payments id generator handed out
    now,                \* datetime.now(), in days
    last,               \* the last call made and what it returned
    pool,               \* Database.pool: 0 is None, k the k-th pool created
    pools_created,      \* how many times asyncpg.create_pool has returned
    tasks,              \* the coroutines in flight: where each one is suspended
    assets              \* the images the photo host (Cloudinary) holds

vars == <<is_postgres, users, users_id_seq, registration_temp, payments,
          payments_id_seq, now, last, pool, pools_created, tasks, assets>>

store == <<users, users_id_seq, registration_temp, payments, payments_id_seq>>

(***************************************************************************)
(* Bounds of the model.                                                    *)
(***************************************************************************)
MaxTime == 1            \* the clock runs over 0..MaxTime
MaxId == 2              \* ids handed out by the users id generator
MaxPayments == 1        \* payment rows created

(***************************************************************************)
(* Input values.                                                           *)
(***************************************************************************)
TelegramIds == {101, 102}
Logins == {"alice", "bob"}
Passwords == {"secret1", "wrong"}
SubTypes == {"premium", "vip"}
\* DEFAULT of column subscription_type (the Ukrainian word, transliterated).
DefaultSubType == "bezkoshtovna"
\* A photo reference is a URL text, the empty text, or NULL (kind "none").
PhotoUrl(url) == [kind |-> "url", url |-> url]
Profiles ==
    { [username |-> "al", full_name |-> "Alice A", birth_date |-> "01.01.1990",
       photo_path |-> PhotoUrl("https://res.cloudinary.com/diia_photos/user_1.jpg")],
      [username |-> "bo", full_name |-> "Bob B", birth_date |-> "02.02.1992",
       photo_path |-> [kind |-> "empty", t |-> 0]],
      [username |-> "ca", full_name |-> "Cat C", birth_date |-> "03.03.1993",
       photo_path |-> [kind |-> "none", t |-> 0]] }

(***************************************************************************)
(* None, datetime and str values.                                          *)
(***************************************************************************)
None == [kind |-> "none", t |-> 0]
datetime(t) == [kind |-> "datetime", t |-> t]
isotext(t) == [kind |-> "str", t |-> t]
EmptyStr == [kind |-> "empty", t |-> 0]
BadStr == [kind |-> "badstr", t |-> 0]

\* datetime.isoformat(): the ISO-8601 text of a datetime object.
isoformat(d) == isotext(d.t)

\* Python truthiness of such a value: None and "" are falsy.
truthy(v) == v.kind \notin {"none", "empty"}

\* The instant a stored or returned timestamp denotes, as
\* datetime.fromisoformat reads text back.
fromisoformat(v) == datetime(v.t)
IsIsoText(v) == v.kind = "str"

\* datetime.now() as each backend's code takes it: a datetime object for
\* PostgreSQL, its isoformat() text for SQLite.
db_now == IF is_postgres THEN datetime(now) ELSE isoformat(datetime(now))

(***************************************************************************)
(* bcrypt.  A salt is the 29-character prefix of the hash; the hash is the *)
(* salt followed by a digest of (salt, password).  checkpw re-hashes the   *)
(* candidate under the salt embedded in the stored hash and compares.      *)
(***************************************************************************)
SaltLen == 29
Salts == {"$2b$12$AAAAAAAAAAAAAAAAAAAAAA", "$2b$12$BBBBBBBBBBBBBBBBBBBBBB"}

bcrypt_digest(password, salt) == SubSeq(salt, 8, 8) \o "#" \o password

bcrypt_hashpw(password, salt) == salt \o bcrypt_digest(password, salt)

bcrypt_valid_hash(hashed) == Len(hashed) > SaltLen

bcrypt_checkpw(password, hashed) ==
    /\ bcrypt_valid_hash(hashed)
    /\ bcrypt_hashpw(password, SubSeq(hashed, 1, SaltLen)) = hashed

\* A verify_password that only looks at the shape of the stored hash.
verify_password_any(stored_hash, password) == bcrypt_valid_hash(stored_hash)

\* Database.verify_password
verify_password(stored_hash, password) == bcrypt_checkpw(password, stored_hash)

(***************************************************************************)
(* Table users.                                                            *)
(***************************************************************************)
\* UNIQUE (telegram_id), UNIQUE (login): whether a row set satisfies both.
users_unique(rows) ==
    \A u, v \in rows :
        (u.telegram_id = v.telegram_id \/ u.login = v.login) => u = v

\* SELECT * FROM users WHERE ...: fetchrow gives no row or one row.
get_user_by_login(login) == {u \in users : u.login = login}
get_user_by_telegram_id(telegram_id) == {u \in users : u.telegram_id = telegram_id}
get_user_by_id(user_id) == {u \in users : u.id = user_id}

\* The row create_user inserts: the columns it names, the others at their
\* column defaults.
new_user_row(id, telegram_id, profile, login, password_hash) ==
    [id |-> id, telegram_id |-> telegram_id, username |-> profile.username,
     full_name |-> profile.full_name, birth_date |-> profile.birth_date,
     photo_path |-> profile.photo_path, login |-> login,
     password_hash |-> password_hash,
     subscription_active |-> FALSE, subscription_type |-> DefaultSubType,
     subscription_until |-> None, last_login |-> None,
     registered_at |-> db_now, updated_at |-> db_now]

\* A create_user over tables without the UNIQUE constraints.
create_user_nocheck(telegram_id, profile, login, password, salt) ==
    LET id == users_id_seq + 1
        row == new_user_row(id, telegram_id, profile, login,
                            bcrypt_hashpw(password, salt))
    IN  [raised |-> FALSE, id |-> id, users |-> users \cup {row}, seq |-> id]

\* Database.create_user: [raised, id, users, seq].  A row that breaks a
\* UNIQUE constraint makes the INSERT raise and inserts nothing; PostgreSQL's
\* SERIAL has then already consumed a value, SQLite's AUTOINCREMENT has not.
create_user(telegram_id, profile, login, password, salt) ==
    LET id == users_id_seq + 1
        row == new_user_row(id, telegram_id, profile, login,
                            bcrypt_hashpw(password, salt))
    IN  IF users_unique(users \cup {row})
        THEN [raised |-> FALSE, id |-> id, users |-> users \cup {row}, seq |-> id]
        ELSE [raised |-> TRUE, id |-> 0, users |-> users,
              seq |-> IF is_postgres THEN id ELSE users_id_seq]

\* An update_user over a table without UNIQUE (login).
update_user_nocheck(telegram_id, profile, login, password, salt) ==
    LET hit == get_user_by_telegram_id(telegram_id)
        upd(u) == [u EXCEPT !.full_name = profile.full_name,
                            !.birth_date = profile.birth_date,
                            !.photo_path = profile.photo_path,
                            !.login = login,
                            !.password_hash = bcrypt_hashpw(password, salt),
                            !.updated_at = db_now]
    IN  [raised |-> FALSE, users |-> (users \ hit) \cup {upd(u) : u \in hit},
         ret |-> IF is_postgres THEN hit # {} ELSE TRUE]

\* An update_user that leaves the stored password hash as it is.
update_user_keep_password(telegram_id, profile, login, password, salt) ==
    LET hit == get_user_by_telegram_id(telegram_id)
        upd(u) == [u EXCEPT !.full_name = profile.full_name,
                            !.birth_date = profile.birth_date,
                            !.photo_path = profile.photo_path,
                            !.login = login,
                            !.updated_at = db_now]
        rows == (users \ hit) \cup {upd(u) : u \in hit}
    IN  IF users_unique(rows)
        THEN [raised |-> FALSE, users |-> rows,
              ret |-> IF is_postgres THEN hit # {} ELSE TRUE]
        ELSE [raised |-> TRUE, users |-> users, ret |-> FALSE]

\* Database.update_user: [raised, ret, users].  The UPDATE rewrites the
\* profile columns, login, password_hash and updated_at of the rows with this
\* telegram_id; a login that another row holds breaks UNIQUE (login) and the
\* statement raises.  PostgreSQL returns whether a row matched; SQLite
\* returns True whatever matched.
update_user(telegram_id, profile, login, password, salt) ==
    LET hit == get_user_by_telegram_id(telegram_id)
        upd(u) == [u EXCEPT !.full_name = profile.full_name,
                            !.birth_date = profile.birth_date,
                            !.photo_path = profile.photo_path,
                            !.login = login,
                            !.password_hash = bcrypt_hashpw(password, salt),
                            !.updated_at = db_now]
        rows == (users \ hit) \cup {upd(u) : u \in hit}
    IN  IF users_unique(rows)
        THEN [raised |-> FALSE, users |-> rows,
              ret |-> IF is_postgres THEN hit # {} ELSE TRUE]
        ELSE [raised |-> TRUE, users |-> users, ret |-> FALSE]

\* An update_last_login that also switches an expired subscription off.
update_last_login_expiring(user_id) ==
    {IF u.id = user_id
     THEN [u EXCEPT !.last_login = db_now,
                    !.subscription_active =
                        IF u.subscription_until.kind # "none"
                           /\ u.subscription_until.t < now
                        THEN FALSE ELSE @]
     ELSE u : u \in users}

\* Database.update_last_login: the users table after the UPDATE.
update_last_login(user_id) ==
    {IF u.id = user_id THEN [u EXCEPT !.last_login = db_now] ELSE u : u \in users}

\* An update_subscription that refuses to store active with a past until.
update_subscription_expiring(user_id, active, sub_type, until) ==
    LET live == active /\ ~(until.kind = "datetime" /\ until.t < now)
        col == IF is_postgres \/ ~truthy(until) THEN until ELSE isoformat(until)
    IN  [raised |-> FALSE,
         users |-> {IF u.id = user_id
                    THEN [u EXCEPT !.subscription_active = live,
                                   !.subscription_type = sub_type,
                                   !.subscription_until = col,
                                   !.updated_at = db_now]
                    ELSE u : u \in users}]

\* Database.update_subscription: [raised, users].  PostgreSQL binds until to a
\* TIMESTAMP parameter, which takes None or a datetime object and raises on a
\* str; SQLite stores until.isoformat() if until is truthy, else NULL, and a
\* non-empty str has no isoformat().  A user_id no row has updates nothing.
update_subscription(user_id, active, sub_type, until) ==
    LET bad == IF is_postgres THEN until.kind \notin {"none", "datetime"}
               ELSE truthy(until) /\ until.kind # "datetime"
        col == IF is_postgres THEN until
               ELSE IF truthy(until) THEN isoformat(until) ELSE None
        upd(u) == [u EXCEPT !.subscription_active = active,
                            !.subscription_type = sub_type,
                            !.subscription_until = col,
                            !.updated_at = db_now]
    IN  IF bad THEN [raised |-> TRUE, users |-> users]
        ELSE [raised |-> FALSE,
              users |-> {IF u.id = user_id THEN upd(u) ELSE u : u \in users}]

\* Database.get_all_users: ORDER BY id DESC.
RECURSIVE rows_desc(_)
rows_desc(rows) ==
    IF rows = {} THEN <<>>
    ELSE LET top == CHOOSE u \in rows : \A v \in rows : v.id <= u.id
         IN  <<top>> \o rows_desc(rows \ {top})

get_all_users == rows_desc(users)

\* Database.login_exists, Database.telegram_id_exists
login_exists(login) == get_user_by_login(login) # {}
telegram_id_exists(telegram_id) == get_user_by_telegram_id(telegram_id) # {}

(***************************************************************************)
(* Table registration_temp.  The payload is a Python dict with str keys    *)
(* and str values: a function from a set of keys.  json.dumps writes it as *)
(* text, here the sequence of its tokens; json.loads parses the text back. *)
(***************************************************************************)
Steps == {"waiting_for_name", "waiting_for_photo"}
PayloadKeySeq == <<"full_name", "birth_date">>
PayloadKeys == {PayloadKeySeq[i] : i \in DOMAIN PayloadKeySeq}
PayloadValues(k) == IF k = "full_name" THEN {"Alice A", "Bob B"} ELSE {"01.01.1990"}
Payloads ==
    UNION {{data \in [ks -> UNION {PayloadValues(k) : k \in PayloadKeys}] :
               \A k \in ks : data[k] \in PayloadValues(k)} : ks \in SUBSET PayloadKeys}
EmptyDict == << >>

\* An optional value: << >> is None, <<x>> is x.
Absent == << >>
Some(x) == <<x>>

json_quote(str) == "\"" \o str \o "\""
json_unquote(tok) == SubSeq(tok, 2, Len(tok) - 1)

RECURSIVE json_members(_, _)
json_members(data, i) ==
    IF i > Len(PayloadKeySeq) THEN << >>
    ELSE LET k == PayloadKeySeq[i]
             rest == json_members(data, i + 1)
         IN  IF k \notin DOMAIN data THEN rest
             ELSE <<json_quote(k), ":", json_quote(data[k])>>
                  \o (IF rest = << >> THEN << >> ELSE <<",">> \o rest)

\* json.dumps(data)
json_dumps(data) == <<"{">> \o json_members(data, 1) \o <<"}">>

RECURSIVE json_parse_members(_, _, _)
json_parse_members(text, i, acc) ==
    IF text[i] = "}" THEN acc
    ELSE IF text[i] = "," THEN json_parse_members(text, i + 1, acc)
    ELSE json_parse_members(text, i + 3,
             (json_unquote(text[i]) :> json_unquote(text[i + 2])) @@ acc)

\* json.loads(text), for the text of an object
json_loads(text) == json_parse_members(text, 2, EmptyDict)

\* A save_registration_state that merges the new payload into the stored one.
save_registration_state_merge(telegram_id, state, data) ==
    {r \in registration_temp : r.telegram_id # telegram_id}
        \cup {[telegram_id |-> telegram_id, state |-> state,
               data |-> json_dumps(
                   data @@ (IF \E r \in registration_temp : r.telegram_id = telegram_id
                            THEN json_loads((CHOOSE r \in registration_temp :
                                               r.telegram_id = telegram_id).data)
                            ELSE EmptyDict)),
               created_at |-> db_now]}

\* Database.save_registration_state: the table after the upsert on the
\* primary key telegram_id (INSERT OR REPLACE / ON CONFLICT DO UPDATE).
save_registration_state(telegram_id, state, data) ==
    {r \in registration_temp : r.telegram_id # telegram_id}
        \cup {[telegram_id |-> telegram_id, state |-> state,
               data |-> json_dumps(data), created_at |-> db_now]}

\* Database.get_registration_state: <<state or None, payload>>.
get_registration_state(telegram_id) ==
    LET hit == {r \in registration_temp : r.telegram_id = telegram_id}
    IN  IF hit = {} THEN <<Absent, EmptyDict>>
        ELSE LET row == CHOOSE r \in hit : TRUE
             IN  <<Some(row.state),
                   IF row.data # << >> THEN json_loads(row.data) ELSE EmptyDict>>

\* A delete_registration_state that empties the payload and keeps the row.
delete_registration_state_keep_row(telegram_id) ==
    {IF r.telegram_id = telegram_id
     THEN [r EXCEPT !.data = json_dumps(EmptyDict)] ELSE r : r \in registration_temp}

\* Database.delete_registration_state: the table after the DELETE.
delete_registration_state(telegram_id) ==
    {r \in registration_temp : r.telegram_id # telegram_id}

\* Database.clear_registration_state
clear_registration_state(telegram_id) == delete_registration_state(telegram_id)

(***************************************************************************)
(* Table payments.                                                         *)
(***************************************************************************)
Amounts == {999}
Currencies == {"USD"}
PaymentDays == {30}
PaymentMethods == {Absent, Some("card")}

\* A create_payment that inserts the payment as already completed.
create_payment_paid(user_id, amount, currency, subscription_type, subscription_days, payment_method) ==
    LET id == payments_id_seq + 1
        row == [id |-> id, user_id |-> user_id, amount |-> amount,
                currency |-> currency, payment_method |-> payment_method,
                status |-> "completed", subscription_type |-> subscription_type,
                subscription_days |-> subscription_days,
                created_at |-> db_now, completed_at |-> db_now]
    IN  IF is_postgres /\ get_user_by_id(user_id) = {}
        THEN [raised |-> TRUE, id |-> 0, payments |-> payments, seq |-> id]
        ELSE [raised |-> FALSE, id |-> id, payments |-> payments \cup {row},
              seq |-> id]

\* Database.create_payment: [raised, id, payments, seq].  PostgreSQL enforces
\* FOREIGN KEY (user_id) REFERENCES users (id), and its SERIAL value is spent
\* by a failed INSERT; SQLite, opened without PRAGMA foreign_keys, does not
\* enforce the key.
create_payment(user_id, amount, currency, subscription_type, subscription_days, payment_method) ==
    LET id == payments_id_seq + 1
        row == [id |-> id, user_id |-> user_id, amount |-> amount,
                currency |-> currency, payment_method |-> payment_method,
                status |-> "pending", subscription_type |-> subscription_type,
                subscription_days |-> subscription_days,
                created_at |-> db_now, completed_at |-> None]
    IN  IF is_postgres /\ get_user_by_id(user_id) = {}
        THEN [raised |-> TRUE, id |-> 0, payments |-> payments, seq |-> id]
        ELSE [raised |-> FALSE, id |-> id, payments |-> payments \cup {row},
              seq |-> id]

\* A complete_payment that reopens a payment that is already completed.
complete_payment_toggle(payment_id) ==
    {IF p.id = payment_id
     THEN IF p.status = "completed"
          THEN [p EXCEPT !.status = "pending", !.completed_at = None]
          ELSE [p EXCEPT !.status = "completed", !.completed_at = db_now]
     ELSE p : p \in payments}

\* Database.complete_payment: the table after the UPDATE.
complete_payment(payment_id) ==
    {IF p.id = payment_id
     THEN [p EXCEPT !.status = "completed", !.completed_at = db_now]
     ELSE p : p \in payments}

(***************************************************************************)
(* The HTTP facades.  A handler gives [status, body, users]: the HTTP      *)
(* status, the JSON body and the users table it leaves.  Messages are the  *)
(* source's Ukrainian texts, transliterated.                               *)
(***************************************************************************)
Facades == {"fastapi", "flask"}
MsgBadLogin == "Nevirnyi lohin abo parol"
MsgLoginOk == "Uspishna avtoryzatsiia"
MsgServerError == "Pomylka servera"
MsgUserNotFound == "Korystuvach ne znaidenyi"
MsgGranted == "Pidpysku vydano korystuvachu"
MsgUpdated == "Pidpysku onovleno"
MsgBadDate == "Nevirnyi format daty"
NoUser == [none |-> TRUE]

\* A datetime object as JSON carries it (isoformat text); other values as is.
json_datetime(v) == IF v.kind = "datetime" THEN isoformat(v) ELSE v

\* A user_safe that forgets to leave the password hash out.
user_safe_with_hash(user) ==
    [id |-> user.id, full_name |-> user.full_name,
     birth_date |-> user.birth_date, login |-> user.login,
     password_hash |-> user.password_hash,
     subscription_active |-> user.subscription_active,
     subscription_type |-> user.subscription_type,
     last_login |-> json_datetime(user.last_login),
     registered_at |-> json_datetime(user.registered_at)]

\* user_safe of api/main.py login and of render_server.py _async_login.
user_safe(user) ==
    [id |-> user.id, full_name |-> user.full_name,
     birth_date |-> user.birth_date, login |-> user.login,
     subscription_active |-> user.subscription_active,
     subscription_type |-> user.subscription_type,
     last_login |-> json_datetime(user.last_login),
     registered_at |-> json_datetime(user.registered_at)]

\* What each facade answers a failed authentication with.
login_failure(facade) ==
    IF facade = "fastapi"
    THEN [status |-> 200,
          body |-> [success |-> FALSE, message |-> MsgBadLogin, user |-> NoUser],
          users |-> users]
    ELSE [status |-> 401,
          body |-> [success |-> FALSE, message |-> MsgBadLogin],
          users |-> users]

\* What each facade answers with when the handler raises.
server_error(facade, detail) ==
    IF facade = "fastapi"
    THEN [status |-> 500, body |-> [detail |-> detail], users |-> users]
    ELSE [status |-> 500,
          body |-> [success |-> FALSE, message |-> MsgServerError],
          users |-> users]

\* A login that answers an unknown login with "user not found".
login_leaky(facade, login, password) ==
    LET found == get_user_by_login(login)
        user == CHOOSE u \in found : TRUE
    IN  IF found = {}
        THEN [status |-> 404, body |-> [error |-> MsgUserNotFound], users |-> users]
        ELSE IF ~verify_password(user.password_hash, password)
        THEN login_failure(facade)
        ELSE [status |-> 200,
              body |-> [success |-> TRUE, message |-> MsgLoginOk,
                        user |-> user_safe(user)],
              users |-> update_last_login(user.id)]

\* A login that stamps last_login before it verifies the password.
api_login_stamping(facade, login, password) ==
    LET found == get_user_by_login(login)
        user == CHOOSE u \in found : TRUE
    IN  IF found = {} THEN login_failure(facade)
        ELSE IF ~verify_password(user.password_hash, password)
        THEN [login_failure(facade) EXCEPT !.users = update_last_login(user.id)]
        ELSE [status |-> 200,
              body |-> [success |-> TRUE, message |-> MsgLoginOk,
                        user |-> user_safe(user)],
              users |-> update_last_login(user.id)]

\* POST /api/auth/login: api/main.py login, render_server.py api_login.
api_login(facade, login, password) ==
    LET found == get_user_by_login(login)
        user == CHOOSE u \in found : TRUE
    IN  IF found = {} THEN login_failure(facade)
        ELSE IF ~bcrypt_valid_hash(user.password_hash)
        THEN server_error(facade, "Internal Server Error")
        ELSE IF ~verify_password(user.password_hash, password)
        THEN login_failure(facade)
        ELSE [status |-> 200,
              body |-> [success |-> TRUE, message |-> MsgLoginOk,
                        user |-> user_safe(user)],
              users |-> update_last_login(user.id)]

\* The days field of a grant request: absent, or an integer.
NoDays == [given |-> FALSE, n |-> 0]
Days(n) == [given |-> TRUE, n |-> n]
days_truthy(days) == days.given /\ days.n # 0

\* POST /api/admin/grant-subscription.  FastAPI serves it from api/admin.py
\* (the router is included before api/main.py declares its own route), which
\* hands update_subscription the isoformat() text of the date; Flask hands it
\* the datetime object.
api_admin_grant_subscription(facade, login, sub_type, days) ==
    LET found == get_user_by_login(login)
        user == CHOOSE u \in found : TRUE
        until_date == datetime(now + days.n)
        until == IF ~days_truthy(days) THEN None
                 ELSE IF facade = "fastapi" THEN isoformat(until_date)
                 ELSE until_date
        done == update_subscription(user.id, TRUE, sub_type, until)
    IN  IF found = {}
        THEN [status |-> 404,
              body |-> IF facade = "fastapi" THEN [detail |-> MsgUserNotFound]
                       ELSE [error |-> MsgUserNotFound],
              users |-> users]
        ELSE IF done.raised
        THEN IF facade = "fastapi"
             THEN [status |-> 500, body |-> [detail |-> "AttributeError"],
                   users |-> users]
             ELSE [status |-> 500, body |-> [error |-> MsgServerError],
                   users |-> users]
        ELSE [status |-> 200,
              body |-> [success |-> TRUE, message |-> MsgGranted,
                        full_name |-> user.full_name,
                        subscription_type |-> sub_type,
                        subscription_until |-> json_datetime(until)],
              users |-> done.users]

\* An update-subscription route that answers 404 for an id no user has.
api_admin_update_subscription_strict(facade, user_id, active, sub_type, until_str) ==
    LET parse_fails == facade = "flask" /\ truthy(until_str)
                         /\ ~IsIsoText(until_str)
        until == IF facade = "fastapi" THEN until_str
                 ELSE IF truthy(until_str) THEN fromisoformat(until_str)
                 ELSE None
        done == update_subscription(user_id, active, sub_type, until)
    IN  IF get_user_by_id(user_id) = {}
        THEN [status |-> 404, body |-> [error |-> MsgUserNotFound], users |-> users]
        ELSE IF parse_fails
        THEN [status |-> 400, body |-> [error |-> MsgBadDate], users |-> users]
        ELSE IF done.raised
        THEN server_error(facade, "AttributeError")
        ELSE [status |-> 200,
              body |-> [success |-> TRUE, message |-> MsgUpdated],
              users |-> done.users]

\* POST /api/admin/update-subscription.  api/admin.py hands the until text of
\* the request to update_subscription as it is; render_server.py parses it
\* with datetime.fromisoformat when it is truthy.
api_admin_update_subscription(facade, user_id, active, sub_type, until_str) ==
    LET parse_fails == facade = "flask" /\ truthy(until_str)
                         /\ ~IsIsoText(until_str)
        until == IF facade = "fastapi" THEN until_str
                 ELSE IF truthy(until_str) THEN fromisoformat(until_str)
                 ELSE None
        done == update_subscription(user_id, active, sub_type, until)
    IN  IF parse_fails
        THEN [status |-> 400, body |-> [error |-> MsgBadDate], users |-> users]
        ELSE IF done.raised
        THEN IF facade = "fastapi"
             THEN [status |-> 500, body |-> [detail |-> "AttributeError"],
                   users |-> users]
             ELSE [status |-> 500, body |-> [error |-> MsgServerError],
                   users |-> users]
        ELSE [status |-> 200,
              body |-> [success |-> TRUE, message |-> MsgUpdated],
              users |-> done.users]

\* GET /api/user/{login}: api/main.py get_user_data, render_server.py
\* api_get_user.  FastAPI's UserDataResponse declares last_login and
\* subscription_until Optional[str], so a datetime object (PostgreSQL) fails
\* its validation; Flask converts a datetime with isoformat().
api_get_user(facade, login) ==
    LET found == get_user_by_login(login)
        user == CHOOSE u \in found : TRUE
        data == [full_name |-> user.full_name, birth_date |-> user.birth_date,
                 photo_url |-> user.photo_path,
                 last_login |-> json_datetime(user.last_login),
                 subscription_active |-> user.subscription_active,
                 subscription_type |-> user.subscription_type,
                 subscription_until |-> json_datetime(user.subscription_until)]
    IN  IF found = {}
        THEN [status |-> 404,
              body |-> IF facade = "fastapi" THEN [detail |-> MsgUserNotFound]
                       ELSE [error |-> MsgUserNotFound],
              users |-> users]
        ELSE IF facade = "fastapi"
                /\ "datetime" \in {user.last_login.kind, user.subscription_until.kind}
        THEN server_error(facade, "Internal Server Error")
        ELSE [status |-> 200, body |-> data, users |-> users]

MsgPhotoNotFound == "Foto ne znaideno"

\* A get_photo that redirects whenever the user exists.
api_get_photo_unchecked(facade, user_id) ==
    LET found == get_user_by_id(user_id)
        user == CHOOSE u \in found : TRUE
    IN  IF found = {}
        THEN [status |-> 404, body |-> [error |-> MsgPhotoNotFound], users |-> users]
        ELSE [status |-> IF facade = "fastapi" THEN 307 ELSE 302,
              body |-> [location |-> IF truthy(user.photo_path)
                                     THEN user.photo_path.url ELSE ""],
              users |-> users]

\* GET /api/photo/{user_id}: api/main.py get_user_photo, render_server.py
\* api_get_photo.  404 when no user has the id or photo_path is falsy, else
\* a redirect to photo_path: RedirectResponse answers 307, flask.redirect 302.
api_get_photo(facade, user_id) ==
    LET found == get_user_by_id(user_id)
        user == CHOOSE u \in found : TRUE
    IN  IF found = {} \/ ~truthy(user.photo_path)
        THEN [status |-> 404,
              body |-> IF facade = "fastapi" THEN [detail |-> MsgPhotoNotFound]
                       ELSE [error |-> MsgPhotoNotFound],
              users |-> users]
        ELSE [status |-> IF facade = "fastapi" THEN 307 ELSE 302,
              body |-> [location |-> user.photo_path.url],
              users |-> users]

\* A users row as JSON carries it: datetime objects as isoformat text.
json_user(u) ==
    [u EXCEPT !.subscription_until = json_datetime(@),
              !.last_login = json_datetime(@),
              !.registered_at = json_datetime(@),
              !.updated_at = json_datetime(@)]

\* GET /api/admin/users: api/admin.py get_all_users, render_server.py
\* api_admin_get_users.
api_admin_get_users(facade) ==
    [status |-> 200,
     body |-> [users |-> [i \in DOMAIN get_all_users |-> json_user(get_all_users[i])]],
     users |-> users]

(***************************************************************************)
(* The state machine.  Every action is one call: of a Database method (by  *)
(* the registration driver) or of a facade route.  last records the call   *)
(* and what it returned (and, for a write of registration_temp, what a     *)
(* read of the same key returned just before it).                          *)
(***************************************************************************)
Untils == {None} \cup {datetime(t) : t \in 0..MaxTime}
UntilTexts == {None, EmptyStr, BadStr} \cup {isotext(t) : t \in 0..MaxTime}
DaysValues == {NoDays, Days(0), Days(1), Days(2)}

\* The coroutines of the process, and one that is not running.
Tasks == {"t1", "t2"}
Idle == [pc |-> "idle"]

\* Database.init_db has run: on PostgreSQL _init_postgres called connect(),
\* which created the pool; on SQLite there is none.
Connected ==
    /\ assets = {}
    /\ pool = IF is_postgres THEN 1 ELSE 0
    /\ pools_created = pool
    /\ tasks = [t \in Tasks |-> Idle]

Init ==
    /\ is_postgres \in BOOLEAN
    /\ Connected
    /\ users = {}
    /\ users_id_seq = 0
    /\ registration_temp = {}
    /\ payments = {}
    /\ payments_id_seq = 0
    /\ now = 0
    /\ last = [op |-> "init"]

\* Time passes.
Tick ==
    /\ now < MaxTime
    /\ now' = now + 1
    /\ last' = [op |-> "tick"]
    /\ UNCHANGED <<assets, is_postgres, pool, pools_created, tasks, store>>

CreateUser(telegram_ids, profiles, logins, passwords, salts) ==
    /\ users_id_seq < MaxId
    /\ \E telegram_id \in telegram_ids, profile \in profiles, login \in logins,
          password \in passwords, salt \in salts :
        LET r == create_user(telegram_id, profile, login, password, salt)
        IN  /\ users' = r.users
            /\ users_id_seq' = r.seq
            /\ last' = [op |-> "create_user",
                        args |-> [telegram_id |-> telegram_id, login |-> login,
                                  password |-> password],
                        ret |-> [raised |-> r.raised, id |-> r.id]]
    /\ UNCHANGED <<assets, is_postgres, pool, pools_created, tasks, registration_temp, payments, payments_id_seq, now>>

UpdateUser(telegram_ids, profiles, logins, passwords, salts) ==
    /\ \E telegram_id \in telegram_ids, profile \in profiles, login \in logins,
          password \in passwords, salt \in salts :
        LET r == update_user(telegram_id, profile, login, password, salt)
        IN  /\ users' = r.users
            /\ last' = [op |-> "update_user",
                        args |-> [telegram_id |-> telegram_id, profile |-> profile,
                                  login |-> login, password |-> password],
                        ret |-> [raised |-> r.raised, value |-> r.ret]]
    /\ UNCHANGED <<assets, is_postgres, pool, pools_created, tasks, users_id_seq, registration_temp, payments,
                   payments_id_seq, now>>

UpdateLastLogin ==
    /\ \E user_id \in 1..MaxId :
        /\ users' = update_last_login(user_id)
        /\ last' = [op |-> "update_last_login", args |-> [user_id |-> user_id]]
    /\ UNCHANGED <<assets, is_postgres, pool, pools_created, tasks, users_id_seq, registration_temp, payments,
                   payments_id_seq, now>>

UpdateSubscription(sub_types, untils) ==
    /\ \E user_id \in 1..MaxId, active \in BOOLEAN, sub_type \in sub_types,
          until \in untils :
        LET r == update_subscription(user_id, active, sub_type, until)
        IN  /\ users' = r.users
            /\ last' = [op |-> "update_subscription",
                        args |-> [user_id |-> user_id, active |-> active,
                                  sub_type |-> sub_type, until |-> until],
                        ret |-> [raised |-> r.raised]]
    /\ UNCHANGED <<assets, is_postgres, pool, pools_created, tasks, users_id_seq, registration_temp, payments,
                   payments_id_seq, now>>

\* A facade call: the users table the handler leaves, and its response.
Respond(op, facade, args, r) ==
    /\ users' = r.users
    /\ last' = [op |-> op, facade |-> facade, args |-> args,
                status |-> r.status, body |-> r.body]
    /\ UNCHANGED <<assets, is_postgres, pool, pools_created, tasks, users_id_seq, registration_temp, payments,
                   payments_id_seq, now>>

ApiLogin(logins, passwords) ==
    \E facade \in Facades, login \in logins, password \in passwords :
        Respond("login", facade, [login |-> login, password |-> password],
                api_login(facade, login, password))

ApiGetUser(logins) ==
    \E facade \in Facades, login \in logins :
        Respond("get_user", facade, [login |-> login],
                api_get_user(facade, login))

ApiGetPhoto(user_ids) ==
    \E facade \in Facades, user_id \in user_ids :
        Respond("get_photo", facade, [user_id |-> user_id],
                api_get_photo(facade, user_id))

ApiAdminGetUsers ==
    \E facade \in Facades :
        Respond("admin_users", facade, [none |-> TRUE], api_admin_get_users(facade))

ApiAdminGrantSubscription(logins, sub_types, days_values) ==
    \E facade \in Facades, login \in logins, sub_type \in sub_types,
       days \in days_values :
        Respond("grant_subscription", facade,
                [login |-> login, sub_type |-> sub_type, days |-> days,
                 at |-> now],
                api_admin_grant_subscription(facade, login, sub_type, days))

ApiAdminUpdateSubscription(sub_types, until_texts) ==
    \E facade \in Facades, user_id \in 1..MaxId, active \in BOOLEAN,
       sub_type \in sub_types, until_str \in until_texts :
        Respond("update_subscription_route", facade,
                [user_id |-> user_id, active |-> active, sub_type |-> sub_type,
                 until |-> until_str],
                api_admin_update_subscription(facade, user_id, active, sub_type,
                                              until_str))

SaveRegistrationState ==
    /\ \E telegram_id \in TelegramIds, state \in Steps, data \in Payloads :
        /\ registration_temp' = save_registration_state(telegram_id, state, data)
        /\ last' = [op |-> "save_registration_state",
                    args |-> [telegram_id |-> telegram_id, state |-> state,
                              data |-> data],
                    before |-> get_registration_state(telegram_id)]
    /\ UNCHANGED <<assets, is_postgres, pool, pools_created, tasks, users, users_id_seq, payments, payments_id_seq, now>>

GetRegistrationState ==
    /\ \E telegram_id \in TelegramIds :
        last' = [op |-> "get_registration_state",
                 args |-> [telegram_id |-> telegram_id],
                 ret |-> get_registration_state(telegram_id)]
    /\ UNCHANGED <<assets, is_postgres, pool, pools_created, tasks, store, now>>

ClearRegistrationState ==
    /\ \E telegram_id \in TelegramIds :
        /\ registration_temp' = clear_registration_state(telegram_id)
        /\ last' = [op |-> "clear_registration_state",
                    args |-> [telegram_id |-> telegram_id],
                    before |-> get_registration_state(telegram_id)]
    /\ UNCHANGED <<assets, is_postgres, pool, pools_created, tasks, users, users_id_seq, payments, payments_id_seq, now>>

CreatePayment(sub_types, methods) ==
    /\ payments_id_seq < MaxPayments
    /\ \E user_id \in 1..MaxId, amount \in Amounts, currency \in Currencies,
          sub_type \in sub_types, days \in PaymentDays, method \in methods :
        LET r == create_payment(user_id, amount, currency, sub_type, days, method)
        IN  /\ payments' = r.payments
            /\ payments_id_seq' = r.seq
            /\ last' = [op |-> "create_payment",
                        args |-> [user_id |-> user_id, amount |-> amount,
                                  currency |-> currency, sub_type |-> sub_type,
                                  days |-> days, method |-> method],
                        ret |-> [raised |-> r.raised, id |-> r.id]]
    /\ UNCHANGED <<assets, is_postgres, pool, pools_created, tasks, users, users_id_seq, registration_temp, now>>

\* A complete_payment that also grants the paid tier to the payment's user.
CompletePaymentGranting ==
    /\ \E payment_id \in 1..MaxPayments :
        /\ payments' = complete_payment(payment_id)
        /\ users' = {IF \E p \in payments : p.id = payment_id /\ p.user_id = u.id
                     THEN [u EXCEPT !.subscription_active = TRUE,
                                    !.subscription_type =
                                        (CHOOSE p \in payments : p.id = payment_id).subscription_type,
                                    !.subscription_until = db_now]
                     ELSE u : u \in users}
        /\ last' = [op |-> "complete_payment",
                    args |-> [payment_id |-> payment_id],
                    before |-> {p.status : p \in {q \in payments : q.id = payment_id}}]
    /\ UNCHANGED <<assets, is_postgres, pool, pools_created, tasks, users_id_seq, registration_temp,
                   payments_id_seq, now>>

CompletePayment ==
    /\ \E payment_id \in 1..MaxPayments :
        /\ payments' = complete_payment(payment_id)
        /\ last' = [op |-> "complete_payment",
                    args |-> [payment_id |-> payment_id],
                    before |-> {p.status : p \in {q \in payments : q.id = payment_id}}]
    /\ UNCHANGED <<assets, is_postgres, pool, pools_created, tasks, users, users_id_seq, registration_temp,
                   payments_id_seq, now>>

(***************************************************************************)
(* Concurrent calls.  Coroutines of one event loop interleave at their     *)
(* awaits: a step runs a coroutine from one suspension point to the next.  *)
(* save_registration_state suspends in asyncpg.create_pool (inside         *)
(* connect), in pool.acquire and in conn.execute on PostgreSQL, and in     *)
(* aiosqlite.connect and db.execute / db.commit on SQLite.  The database   *)
(* applies one statement (SQLite: one committed transaction) atomically.   *)
(***************************************************************************)
\* The save_registration_state calls the coroutines make.
ConcurrentSaves ==
    { [telegram_id |-> 101, state |-> "waiting_for_name",
       data |-> ("full_name" :> "Alice A")],
      [telegram_id |-> 101, state |-> "waiting_for_photo",
       data |-> ("birth_date" :> "01.01.1990")],
      [telegram_id |-> 102, state |-> "waiting_for_name", data |-> EmptyDict] }

\* An upsert that, on a conflict, sets the state column and keeps the data.
upsert_registration_state_only(telegram_id, state, data_json, created_at) ==
    IF \E r \in registration_temp : r.telegram_id = telegram_id
    THEN {IF r.telegram_id = telegram_id
          THEN [r EXCEPT !.state = state, !.created_at = created_at]
          ELSE r : r \in registration_temp}
    ELSE registration_temp
            \cup {[telegram_id |-> telegram_id, state |-> state,
                   data |-> data_json, created_at |-> created_at]}

\* The statement of save_registration_state, INSERT ... ON CONFLICT
\* (telegram_id) DO UPDATE / INSERT OR REPLACE, with the values bound to it.
upsert_registration(telegram_id, state, data_json, created_at) ==
    {r \in registration_temp : r.telegram_id # telegram_id}
        \cup {[telegram_id |-> telegram_id, state |-> state,
               data |-> data_json, created_at |-> created_at]}

\* Database.connect: `if self.is_postgres and not self.pool`.
connect_creates_pool == is_postgres /\ pool = 0

\* save_registration_state is called and runs to its first await: it has
\* data_json; on PostgreSQL connect() has tested self.pool and is either in
\* create_pool or through to pool.acquire; on SQLite it has now_str and is
\* in aiosqlite.connect.
SaveBegin(t) ==
    /\ tasks[t] = Idle
    /\ \E call \in ConcurrentSaves :
         tasks' = [tasks EXCEPT ![t] =
                     [pc |-> IF connect_creates_pool THEN "create_pool"
                             ELSE IF is_postgres THEN "acquire" ELSE "execute",
                      telegram_id |-> call.telegram_id, state |-> call.state,
                      data |-> call.data, data_json |-> json_dumps(call.data),
                      at |-> IF is_postgres THEN None ELSE db_now]]
    /\ UNCHANGED <<assets, is_postgres, store, now, last, pool, pools_created>>

\* asyncpg.create_pool returns and connect() assigns self.pool.
CreatePoolReturn(t) ==
    /\ tasks[t].pc = "create_pool"
    /\ pools_created' = pools_created + 1
    /\ pool' = pools_created + 1
    /\ tasks' = [tasks EXCEPT ![t].pc = "acquire"]
    /\ UNCHANGED <<assets, is_postgres, store, now, last>>

\* pool.acquire returns a connection; now = datetime.now(); conn.execute is
\* awaited.
AcquireReturn(t) ==
    /\ tasks[t].pc = "acquire"
    /\ tasks' = [tasks EXCEPT ![t].pc = "execute", ![t].at = db_now]
    /\ UNCHANGED <<assets, is_postgres, store, now, last, pool, pools_created>>

\* The database applies the statement and the call returns.
SaveExecute(t) ==
    /\ tasks[t].pc = "execute"
    /\ registration_temp' =
          upsert_registration(tasks[t].telegram_id, tasks[t].state,
                              tasks[t].data_json, tasks[t].at)
    /\ last' = [op |-> "save_registration_state", task |-> t,
                args |-> [telegram_id |-> tasks[t].telegram_id,
                          state |-> tasks[t].state, data |-> tasks[t].data],
                before |-> get_registration_state(tasks[t].telegram_id)]
    /\ tasks' = [tasks EXCEPT ![t] = Idle]
    /\ UNCHANGED <<assets, is_postgres, users, users_id_seq, payments, payments_id_seq,
                   now, pool, pools_created>>

(***************************************************************************)
(* The photo hosting client (utils/cloudinary_helper.py).  The host keeps  *)
(* images under public ids.  A call to the host can fail: "lost" before    *)
(* the host acted, or "unanswered" after it did; either way the SDK        *)
(* raises.                                                                 *)
(***************************************************************************)
PhotoFiles == {"photos/a.jpg", "photos/b.jpg"}
Faults == {"none", "lost", "unanswered"}

\* folder "diia_photos" and public_id f"user_{user_id}"
public_id(user_id) == "diia_photos/user_" \o ToString(user_id)
secure_url(id) == "https://res.cloudinary.com/image/upload/" \o id \o ".jpg"

\* cloudinary.uploader.upload(..., overwrite=True): the assets afterwards.
uploader_upload(file_path, id) ==
    {a \in assets : a.public_id # id} \cup {[public_id |-> id, file |-> file_path]}

\* cloudinary.uploader.destroy(public_id): the assets afterwards.
uploader_destroy(id) == {a \in assets : a.public_id # id}

\* An upload that stores every image under a key of its own.
upload_photo_accumulating(file_path, user_id, fault) ==
    IF fault = "none"
    THEN [raised |-> FALSE, url |-> Some(secure_url(public_id(user_id))),
          assets |-> assets \cup {[public_id |-> public_id(user_id) \o "_" \o file_path,
                                   file |-> file_path]}]
    ELSE [raised |-> TRUE, url |-> Absent, assets |-> assets]

\* upload_photo_to_cloudinary: [raised, url, assets].  The except branch
\* prints and re-raises.
upload_photo_to_cloudinary(file_path, user_id, fault) ==
    IF fault = "none"
    THEN [raised |-> FALSE, url |-> Some(secure_url(public_id(user_id))),
          assets |-> uploader_upload(file_path, public_id(user_id))]
    ELSE [raised |-> TRUE, url |-> Absent,
          assets |-> IF fault = "lost" THEN assets
                     ELSE uploader_upload(file_path, public_id(user_id))]

\* delete_photo_from_cloudinary: [raised, assets].  The except branch prints
\* and returns.
delete_photo_from_cloudinary(user_id, fault) ==
    [raised |-> FALSE,
     assets |-> IF fault = "lost" THEN assets
                ELSE uploader_destroy(public_id(user_id))]

UploadPhoto ==
    /\ \E file_path \in PhotoFiles, user_id \in 1..MaxId, fault \in Faults :
        LET r == upload_photo_to_cloudinary(file_path, user_id, fault)
        IN  /\ assets' = r.assets
            /\ last' = [op |-> "upload_photo",
                        args |-> [file_path |-> file_path, user_id |-> user_id],
                        fault |-> fault,
                        ret |-> [raised |-> r.raised, url |-> r.url]]
    /\ UNCHANGED <<is_postgres, store, now, pool, pools_created, tasks>>

DeletePhoto ==
    /\ \E user_id \in 1..MaxId, fault \in Faults :
        LET r == delete_photo_from_cloudinary(user_id, fault)
        IN  /\ assets' = r.assets
            /\ last' = [op |-> "delete_photo", args |-> [user_id |-> user_id],
                        fault |-> fault, ret |-> [raised |-> r.raised]]
    /\ UNCHANGED <<is_postgres, store, now, pool, pools_created, tasks>>

(***************************************************************************)
(* Specifications.                                                         *)
(***************************************************************************)
OneProfile == {CHOOSE p \in Profiles : p.photo_path.kind = "url"}
OnePassword == {"secret1"}
OneSalt == {CHOOSE salt \in Salts : TRUE}

\* Registration and authentication: users are created and log in.
NextAuth ==
    \/ Tick
    \/ CreateUser(TelegramIds, OneProfile, Logins, Passwords, Salts)
    \/ ApiLogin(Logins, Passwords)

SpecAuth == Init /\ [][NextAuth]_vars

\* The credential store: every call that writes table users, in any order.
NextUsers ==
    \/ CreateUser(TelegramIds, OneProfile, Logins, OnePassword, OneSalt)
    \/ UpdateUser(TelegramIds, OneProfile, Logins, Passwords, OneSalt)
    \/ UpdateLastLogin
    \/ UpdateSubscription({"premium"}, {None})

SpecUsers == Init /\ [][NextUsers]_vars

\* The registration-state store.
NextReg ==
    \/ Tick
    \/ SaveRegistrationState
    \/ GetRegistrationState
    \/ ClearRegistrationState

SpecReg == Init /\ [][NextReg]_vars

OneTelegramId == {CHOOSE id \in TelegramIds : TRUE}
OneLogin == {"alice"}
OneSubType == {"premium"}

\* The users table after alice (and then bob) registered at instant 0: what
\* create_user leaves when called on the empty table, and again on the result.
AliceRow ==
    new_user_row(1, 101, CHOOSE p \in Profiles : p.photo_path.kind = "url", "alice",
                 bcrypt_hashpw("secret1", CHOOSE salt \in Salts : TRUE))
BobRow ==
    new_user_row(2, 102, CHOOSE p \in Profiles : p.photo_path.kind = "empty", "bob",
                 bcrypt_hashpw("wrong", CHOOSE salt \in Salts : TRUE))

InitRegistered(rows) ==
    /\ is_postgres \in BOOLEAN
    /\ Connected
    /\ now = 0
    /\ users = rows
    /\ users_id_seq = Cardinality(rows)
    /\ registration_temp = {}
    /\ payments = {}
    /\ payments_id_seq = 0
    /\ last = [op |-> "init"]

InitAliceBob == InitRegistered({AliceRow, BobRow})
InitAlice == InitRegistered({AliceRow})

\* The subscription ledger: two registered users, update_subscription calls
\* for any id, and time passing.
NextSub ==
    \/ Tick
    \/ UpdateSubscription(SubTypes, Untils)

SpecSub == InitAliceBob /\ [][NextSub]_vars

\* Granting: one registered user (alice; bob is unknown), grant requests on
\* either facade, and time passing.
NextGrant ==
    \/ Tick
    \/ ApiAdminGrantSubscription(Logins, OneSubType, DaysValues)

SpecGrant == InitAlice /\ [][NextGrant]_vars

\* The update-subscription route: one registered user, requests on either
\* facade for any id and any until text, and time passing.
NextUpdateRoute ==
    \/ Tick
    \/ ApiAdminUpdateSubscription(OneSubType, UntilTexts)

SpecUpdateRoute == InitAlice /\ [][NextUpdateRoute]_vars

\* The shared HTTP surface: alice registered with any of the photo
\* references (bob and id 2 are unknown), the six routes on either facade,
\* and time passing.
InitOneUser ==
    \E profile \in Profiles :
        InitRegistered({new_user_row(1, 101, profile, "alice",
                                     bcrypt_hashpw("secret1", CHOOSE salt \in Salts : TRUE))})

NextFacades ==
    \/ Tick
    \/ ApiLogin(Logins, Passwords)
    \/ ApiGetUser(Logins)
    \/ ApiGetPhoto(1..MaxId)
    \/ ApiAdminGetUsers
    \/ ApiAdminGrantSubscription(Logins, OneSubType, {NoDays, Days(1)})
    \/ ApiAdminUpdateSubscription(OneSubType, {None, BadStr, isotext(0)})

SpecFacades == InitOneUser /\ [][NextFacades]_vars

\* The payment log: alice registered (id 2 is no user's), payments created
\* for any id and completed, and time passing.
NextPay ==
    \/ Tick
    \/ CreatePayment(SubTypes, PaymentMethods)
    \/ CompletePayment

SpecPay == InitAlice /\ [][NextPay]_vars

\* Concurrent registration saves on a Database object whose pool has not
\* been created yet: the tables exist and are empty.
InitFresh ==
    /\ is_postgres \in BOOLEAN
    /\ assets = {}
    /\ pool = 0
    /\ pools_created = 0
    /\ tasks = [t \in Tasks |-> Idle]
    /\ users = {}
    /\ users_id_seq = 0
    /\ registration_temp = {}
    /\ payments = {}
    /\ payments_id_seq = 0
    /\ now = 0
    /\ last = [op |-> "init"]

NextConcurrent ==
    \/ Tick
    \/ \E t \in Tasks : SaveBegin(t)
    \/ \E t \in Tasks : CreatePoolReturn(t)
    \/ \E t \in Tasks : AcquireReturn(t)
    \/ \E t \in Tasks : SaveExecute(t)

SpecConcurrent == InitFresh /\ [][NextConcurrent]_vars

\* Profile updates: alice registered, alone or with bob, update_user calls
\* for either telegram_id with any profile, login and password, and the
\* calls that set last_login and the subscription.
InitOneOrTwoUsers == InitAlice \/ InitAliceBob

NextProfile ==
    \/ UpdateUser(TelegramIds, Profiles, Logins, Passwords, OneSalt)
    \/ UpdateLastLogin
    \/ UpdateSubscription(OneSubType, {None})

SpecProfile == InitOneOrTwoUsers /\ [][NextProfile]_vars

\* The photo host: uploads and deletes for any user id, with and without
\* failures of the call.
NextPhotos ==
    \/ UploadPhoto
    \/ DeletePhoto

SpecPhotos == Init /\ [][NextPhotos]_vars

\* A call of which only the name is recorded.
Call(op, new_users, new_users_id_seq, new_payments, new_payments_id_seq) ==
    /\ users' = new_users
    /\ users_id_seq' = new_users_id_seq
    /\ payments' = new_payments
    /\ payments_id_seq' = new_payments_id_seq
    /\ last' = [op |-> op]
    /\ UNCHANGED <<assets, is_postgres, pool, pools_created, tasks, registration_temp, now>>

UserCall(op, new_users) ==
    Call(op, new_users, users_id_seq, payments, payments_id_seq)

\* Alice's account and the payments table: every operation on a stored user
\* and on payments, through the store and through both facades, and time
\* passing.
Next ==
    \/ Tick
    \/ \E profile \in OneProfile :
            UserCall("update_user",
                     update_user(101, profile, "alice", "secret1",
                                 CHOOSE salt \in Salts : TRUE).users)
    \/ \E user_id \in 1..MaxId :
            UserCall("update_last_login", update_last_login(user_id))
    \/ \E user_id \in 1..MaxId, active \in BOOLEAN, until \in {None, datetime(0)} :
            UserCall("update_subscription",
                     update_subscription(user_id, active, "premium", until).users)
    \/ \E facade \in Facades, password \in Passwords :
            UserCall("login", api_login(facade, "alice", password).users)
    \/ \E facade \in Facades :
            UserCall("get_user", api_get_user(facade, "alice").users)
    \/ \E facade \in Facades, days \in {NoDays, Days(1)} :
            UserCall("grant_subscription",
                     api_admin_grant_subscription(facade, "alice", "premium",
                                                  days).users)
    \/ \E facade \in Facades, user_id \in 1..MaxId, active \in BOOLEAN :
            UserCall("update_subscription_route",
                     api_admin_update_subscription(facade, user_id, active,
                                                   "premium", isotext(0)).users)
    \/ /\ payments_id_seq < MaxPayments
       /\ \E user_id \in {u.id : u \in users} :
            LET r == create_payment(user_id, 999, "USD", "premium", 30, Absent)
            IN  Call("create_payment", users, users_id_seq, r.payments, r.seq)
    \/ \E payment_id \in 1..MaxPayments :
            Call("complete_payment", users, users_id_seq,
                 complete_payment(payment_id), payments_id_seq)

Spec == InitAlice /\ [][Next]_vars

(***************************************************************************)
(* Claims.                                                                 *)
(***************************************************************************)
TheUser(rows) == CHOOSE u \in rows : TRUE
CandidatePasswords == Passwords \cup {"", "secret12", "Secret1"}
IsLoginFailure(r) ==
    /\ "success" \in DOMAIN r.body
    /\ r.body.success = FALSE
    /\ r.body.message = MsgBadLogin

\* C1: on one facade, in every store state, a login request for a login that
\* is not stored and one for a stored login with a wrong password get the
\* same response (status, success flag, message, whole body), and neither
\* changes the users table.
C1_LoginFailureIsGeneric ==
    \A facade \in Facades, unknown \in Logins, known \in Logins,
       p \in CandidatePasswords, q \in CandidatePasswords :
        ( /\ get_user_by_login(unknown) = {}
          /\ get_user_by_login(known) # {}
          /\ ~verify_password(TheUser(get_user_by_login(known)).password_hash, q) )
        => LET a == api_login(facade, unknown, p)
               b == api_login(facade, known, q)
           IN  /\ a.status = b.status
               /\ a.body = b.body
               /\ IsLoginFailure(a)
               /\ a.users = users /\ b.users = users

\* C1 witness: a login for a stored login was refused while another login
\* is not stored.
C1_Witness ==
    /\ last.op = "login"
    /\ IsLoginFailure(last)
    /\ login_exists(last.args.login)
    /\ \E unknown \in Logins : ~login_exists(unknown)

SafeKeys == {"id", "full_name", "birth_date", "login", "subscription_active",
             "subscription_type", "last_login", "registered_at"}

\* C2: every successful login response, on either facade and for every
\* stored user, carries a user object with exactly the keys id, full_name,
\* birth_date, login, subscription_active, subscription_type, last_login and
\* registered_at, none of which holds the password hash.
C2_LoginUserHasNoHash ==
    \A facade \in Facades, login \in Logins, password \in Passwords :
        LET r == api_login(facade, login, password)
        IN  ("success" \in DOMAIN r.body /\ r.body.success)
            => /\ r.status = 200
               /\ DOMAIN r.body.user = SafeKeys
               /\ \A u \in get_user_by_login(login) :
                    \A k \in {"full_name", "birth_date", "login", "subscription_type"} :
                        r.body.user[k] # u.password_hash

\* C2 witness: a login succeeded and returned a user object.
C2_Witness ==
    /\ last.op = "login"
    /\ last.status = 200
    /\ last.body.success
    /\ last.body.user.login = last.args.login

\* C3: for every (login, password) create_user stores, verify_password on
\* the stored hash is true for that password and false for every other
\* password, and the stored hash is not the password itself.
C3_StoredHashVerifies ==
    \A telegram_id \in TelegramIds, profile \in OneProfile, login \in Logins,
       password \in Passwords, salt \in Salts :
        LET r == create_user(telegram_id, profile, login, password, salt)
        IN  ~r.raised =>
              \A u \in r.users :
                (u.id = r.id) =>
                    /\ u.login = login
                    /\ verify_password(u.password_hash, password)
                    /\ \A other \in CandidatePasswords \ {password} :
                         ~verify_password(u.password_hash, other)
                    /\ u.password_hash # password

\* C3 witness: create_user stored a user, whose hash verifies the password
\* it was called with.
C3_Witness ==
    /\ last.op = "create_user"
    /\ ~last.ret.raised
    /\ \E u \in users :
        /\ u.id = last.ret.id
        /\ verify_password(u.password_hash, last.args.password)

\* C4: in every state reached by create_user, update_user, update_last_login
\* and update_subscription calls in any order, no two user rows share a
\* login and no two share a telegram_id.
C4_LoginAndTelegramIdUnique ==
    \A u \in users, v \in users :
        u # v => /\ u.login # v.login
                 /\ u.telegram_id # v.telegram_id
                 /\ u.id # v.id

\* C4 witness: two users are stored and an update_user that asked for the
\* other user's login was refused.
C4_Witness ==
    /\ Cardinality(users) = 2
    /\ last.op = "update_user"
    /\ last.ret.raised
    /\ \E u \in users : u.login = last.args.login
                        /\ u.telegram_id # last.args.telegram_id

\* C5: a create_user call whose login or telegram_id a stored user already
\* has raises and leaves table users as it was; a call with a fresh login and
\* a fresh telegram_id adds exactly one row, which carries the login and
\* telegram_id given, and returns that row's id, an id not used before.
C5_CreateUserConflictOrInsert ==
    [][ last'.op = "create_user" =>
          LET a == last'.args
              ret == last'.ret
          IN  IF login_exists(a.login) \/ telegram_id_exists(a.telegram_id)
              THEN ret.raised /\ users' = users
              ELSE /\ ~ret.raised
                   /\ Cardinality(users') = Cardinality(users) + 1
                   /\ \E row \in users' :
                        /\ users' = users \cup {row}
                        /\ row \notin users
                        /\ row.id = ret.id
                        /\ row.id > users_id_seq
                        /\ \A u \in users : u.id # row.id
                        /\ row.login = a.login
                        /\ row.telegram_id = a.telegram_id ]_vars

\* C5 witness: a create_user call for a login that is already stored was
\* refused.
C5_Witness ==
    /\ last.op = "create_user"
    /\ last.ret.raised
    /\ login_exists(last.args.login)
    /\ ~telegram_id_exists(last.args.telegram_id)

OtherRegistrations(telegram_id) ==
    {r \in registration_temp : r.telegram_id # telegram_id}

\* C6: after save_registration_state(id, step, payload), whatever was stored
\* for id before (nothing, or an earlier save), get_registration_state(id)
\* returns exactly (step, payload): no key of an earlier payload survives
\* unless payload has it.  The rows of other ids are left as they were.
C6_SaveThenGetRoundTrip ==
    [][ \A id \in TelegramIds :
          (last'.op = "save_registration_state" /\ last'.args.telegram_id = id)
          => /\ get_registration_state(id)'
                  = <<Some(last'.args.state), last'.args.data>>
             /\ OtherRegistrations(id)' = OtherRegistrations(id)
      ]_vars

\* C6 witness: a second save for an id replaced a stored step by another and
\* a stored payload by one that lacks one of its keys.
C6_Witness ==
    /\ last.op = "save_registration_state"
    /\ last.before[1] # Absent
    /\ last.before[1] # Some(last.args.state)
    /\ \E k \in DOMAIN last.before[2] : k \notin DOMAIN last.args.data
    /\ get_registration_state(last.args.telegram_id)
         = <<Some(last.args.state), last.args.data>>

\* C7: after clear_registration_state(id), whatever was stored before,
\* get_registration_state(id) returns (None, {}); the rows of other ids are
\* untouched; and clearing an id that has no stored state changes nothing
\* (so a second clear has the effect of none).
C7_ClearThenGetIsEmpty ==
    [][ \A id \in TelegramIds :
          (last'.op = "clear_registration_state" /\ last'.args.telegram_id = id)
          => /\ get_registration_state(id)' = <<Absent, EmptyDict>>
             /\ OtherRegistrations(id)' = OtherRegistrations(id)
             /\ (get_registration_state(id) = <<Absent, EmptyDict>>
                   => registration_temp' = registration_temp)
      ]_vars

\* C7 witness: a clear removed a stored state, and the read after it is empty.
C7_Witness ==
    /\ last.op = "clear_registration_state"
    /\ last.before[1] # Absent
    /\ last.before[2] # EmptyDict
    /\ get_registration_state(last.args.telegram_id) = <<Absent, EmptyDict>>

\* The instant a timestamp column gives back on a read: SQLite hands back the
\* ISO-8601 text it stored, which datetime.fromisoformat reads; PostgreSQL
\* hands back the datetime object; NULL is None on both.
ReadBack(v) == IF IsIsoText(v) THEN fromisoformat(v) ELSE v

OtherUsers(user_id) == {u \in users : u.id # user_id}

SubscriptionOf(u) ==
    <<u.subscription_active, u.subscription_type, u.subscription_until>>

\* C8: update_subscription(id, active, tier, until) on a stored user, for
\* every active, tier and until (None, or a date before, at or after the call
\* time), does not raise, and a read of that user then gives exactly active,
\* tier and the instant until (None for None); every other user's row is
\* left as it was.
C8_UpdateSubscriptionOverwrites ==
    [][ \A id \in 1..MaxId :
          ( /\ last'.op = "update_subscription"
            /\ last'.args.user_id = id
            /\ get_user_by_id(id) # {} )
          => /\ ~last'.ret.raised
             /\ get_user_by_id(id)' # {}
             /\ \A u \in get_user_by_id(id)' :
                  /\ u.subscription_active = last'.args.active
                  /\ u.subscription_type = last'.args.sub_type
                  /\ ReadBack(u.subscription_until) = last'.args.until
             /\ OtherUsers(id)' = OtherUsers(id)
      ]_vars

\* C8 witness: update_subscription stored active = true with an until that
\* is already past, and the row still reads active with that until.
C8_Witness ==
    /\ last.op = "update_subscription"
    /\ last.args.active
    /\ last.args.until.kind = "datetime"
    /\ last.args.until.t < now
    /\ \E u \in get_user_by_id(last.args.user_id) :
         /\ u.subscription_active
         /\ ReadBack(u.subscription_until) = last.args.until
    /\ OtherUsers(last.args.user_id) # {}

SubscriptionWriters ==
    {"update_subscription", "grant_subscription", "update_subscription_route"}

\* C9: a stored user's subscription_active, subscription_type and
\* subscription_until change only in a step that calls update_subscription
\* (directly, or through a grant or update-subscription route): no login,
\* lookup, profile update, last-login update, payment operation or tick of
\* the clock changes them, and no step removes a user.
C9_OnlyUpdateSubscriptionWrites ==
    [][ \A u \in users :
          /\ \E v \in users' : v.id = u.id
          /\ \A v \in users' :
               (v.id = u.id /\ SubscriptionOf(v) # SubscriptionOf(u))
               => last'.op \in SubscriptionWriters
      ]_vars

\* C9 witness: the clock has passed the until of an active subscription,
\* the last step was a login, lookup, profile update or payment operation,
\* and the subscription is still active.
C9_Witness ==
    /\ last.op \in {"login", "get_user", "update_user", "update_last_login",
                    "create_payment", "complete_payment"}
    /\ \E u \in users :
         /\ u.subscription_active
         /\ u.subscription_until.kind # "none"
         /\ u.subscription_until.t < now
         /\ u.last_login.kind # "none"
    /\ \E p \in payments : p.status = "completed"

\* C10 (as claimed): a grant-subscription request for a stored login, on
\* either facade, leaves that user with subscription_active = true and
\* subscription_type = sub_type, and with subscription_until at call time +
\* days when days is positive, None when days is omitted.
C10_GrantStoresSubscription ==
    [][ \A login \in Logins :
          ( /\ last'.op = "grant_subscription"
            /\ last'.args.login = login
            /\ get_user_by_login(login) # {}
            /\ (last'.args.days.n > 0 \/ ~last'.args.days.given) )
          => \A u \in get_user_by_login(login)' :
               /\ u.subscription_active
               /\ u.subscription_type = last'.args.sub_type
               /\ ReadBack(u.subscription_until)
                    = IF last'.args.days.given
                      THEN datetime(now + last'.args.days.n) ELSE None
      ]_vars

\* C11 (as claimed): an update-subscription request, on either facade, whose
\* until is a non-empty string that is not an ISO-8601 date is answered 400
\* and leaves the store as it was; one whose until is an ISO-8601 date is
\* answered 200 and the user of the request then holds that instant as
\* subscription_until.
C11_UpdateRouteValidatesUntil ==
    [][ \A id \in 1..MaxId :
          ( /\ last'.op = "update_subscription_route"
            /\ last'.args.user_id = id )
          => /\ last'.args.until = BadStr
                  => (last'.status = 400 /\ store' = store)
             /\ IsIsoText(last'.args.until)
                  => /\ last'.status = 200
                     /\ \A u \in get_user_by_id(id)' :
                          ReadBack(u.subscription_until)
                              = fromisoformat(last'.args.until)
      ]_vars

\* Whether a response reports success: its success flag when the body has
\* one, else a status below 400.
Succeeds(r) ==
    IF "success" \in DOMAIN r.body THEN r.body.success ELSE r.status < 400

SameOutcome(a, b) ==
    /\ a.status = b.status
    /\ Succeeds(a) = Succeeds(b)
    /\ a.users = b.users

\* C12 (as claimed): in every store state and for every request of the six
\* shared routes, the FastAPI facade and the Flask facade answer with the
\* same HTTP status and the same success or failure, and leave the same
\* users table.
C12_FacadesAgree ==
    /\ \A login \in Logins, password \in Passwords :
         SameOutcome(api_login("fastapi", login, password),
                     api_login("flask", login, password))
    /\ \A login \in Logins :
         SameOutcome(api_get_user("fastapi", login), api_get_user("flask", login))
    /\ \A user_id \in 1..MaxId :
         SameOutcome(api_get_photo("fastapi", user_id), api_get_photo("flask", user_id))
    /\ SameOutcome(api_admin_get_users("fastapi"), api_admin_get_users("flask"))
    /\ \A login \in Logins, sub_type \in OneSubType, days \in DaysValues :
         SameOutcome(api_admin_grant_subscription("fastapi", login, sub_type, days),
                     api_admin_grant_subscription("flask", login, sub_type, days))
    /\ \A user_id \in 1..MaxId, active \in BOOLEAN, sub_type \in OneSubType,
          until_str \in UntilTexts :
         SameOutcome(api_admin_update_subscription("fastapi", user_id, active,
                                                   sub_type, until_str),
                     api_admin_update_subscription("flask", user_id, active,
                                                   sub_type, until_str))

\* C13: on either facade, GET /api/user/{login} for a login no user has is
\* answered 404; GET /api/photo/{user_id} is answered 404 when no user has
\* the id or the user's photo reference is NULL or empty, and otherwise with
\* a redirect whose location is the stored photo URL; grant-subscription for
\* a login no user has is answered 404; and every 404 of these routes leaves
\* the store as it was.
C13_NotFoundResponses ==
    [][ /\ \A login \in Logins :
             ( /\ last'.op \in {"get_user", "grant_subscription"}
               /\ last'.args.login = login
               /\ get_user_by_login(login) = {} )
             => last'.status = 404
        /\ \A id \in 1..MaxId :
             ( /\ last'.op = "get_photo"
               /\ last'.args.user_id = id )
             => IF \E u \in get_user_by_id(id) : truthy(u.photo_path)
                THEN /\ last'.status \in {302, 307}
                     /\ \A u \in get_user_by_id(id) :
                          last'.body.location = u.photo_path.url
                ELSE last'.status = 404
        /\ ( /\ last'.op \in {"get_user", "get_photo", "grant_subscription"}
             /\ last'.status = 404 )
           => store' = store
      ]_vars

\* C13 witness: a photo request for a stored user whose photo reference is
\* NULL or empty was answered 404.
C13_Witness ==
    /\ last.op = "get_photo"
    /\ last.status = 404
    /\ \E u \in get_user_by_id(last.args.user_id) : ~truthy(u.photo_path)

PaymentsWithId(rows, id) == {p \in rows : p.id = id}

\* What create_payment and complete_payment do once the payment is there:
\* a create_payment that does not raise adds exactly one row, under the id
\* it returns and no earlier payment has, with status "pending" and a NULL
\* completed_at, and keeps every earlier row; complete_payment(id) on a
\* stored payment, pending or already completed, leaves it "completed" with
\* a non-NULL completed_at.
PaymentLifecycle ==
    /\ (last'.op = "create_payment" /\ ~last'.ret.raised)
       => /\ payments \subseteq payments'
          /\ PaymentsWithId(payments, last'.ret.id) = {}
          /\ \E p \in payments' :
               /\ payments' = payments \cup {p}
               /\ p.id = last'.ret.id
               /\ p.user_id = last'.args.user_id
               /\ p.status = "pending"
               /\ p.completed_at = None
    /\ \A id \in 1..MaxPayments :
         ( /\ last'.op = "complete_payment"
           /\ last'.args.payment_id = id
           /\ PaymentsWithId(payments, id) # {} )
         => /\ PaymentsWithId(payments', id) # {}
            /\ \A p \in PaymentsWithId(payments', id) :
                 p.status = "completed" /\ p.completed_at # None

\* C14 (as claimed): create_payment always inserts, for every user_id.
C14_CreatePaymentAlwaysInserts ==
    [][ /\ last'.op = "create_payment" => ~last'.ret.raised
        /\ PaymentLifecycle
      ]_vars

\* C14 (amended): create_payment for the id of a stored user inserts a new
\* payment with status "pending" and a NULL completed_at and returns its new
\* id (so does every create_payment that does not raise); complete_payment
\* of it leaves it "completed" with a non-NULL completed_at, the first time
\* and every later time.
C14_PaymentLifecycle ==
    [][ /\ \A user_id \in 1..MaxId :
             ( /\ last'.op = "create_payment"
               /\ last'.args.user_id = user_id
               /\ get_user_by_id(user_id) # {} )
             => ~last'.ret.raised
        /\ PaymentLifecycle
      ]_vars

\* C14 witness: complete_payment was called on a payment that was already
\* completed, and it is still completed.
C14_Witness ==
    /\ last.op = "complete_payment"
    /\ last.before = {"completed"}
    /\ \E p \in payments :
         /\ p.id = last.args.payment_id
         /\ p.status = "completed"
         /\ p.completed_at # None

PaymentTerms(p) ==
    <<p.user_id, p.amount, p.currency, p.subscription_type, p.subscription_days>>

\* C15: after every step each payment has status "pending" or "completed",
\* with completed_at non-NULL exactly when it is "completed"; and every
\* step keeps each payment, under its id, with the same user, amount,
\* currency, tier and day-count, and keeps a completed payment completed.
C15_PaymentLogAppendOnly ==
    [][ /\ \A q \in payments' :
             /\ q.status \in {"pending", "completed"}
             /\ (q.completed_at # None) <=> (q.status = "completed")
        /\ \A p \in payments :
             \E q \in payments' :
                /\ q.id = p.id
                /\ PaymentTerms(q) = PaymentTerms(p)
                /\ (p.status = "completed" => q.status = "completed")
      ]_vars

\* C15 witness: a payment completed after the instant it was created is
\* still there, completed, after a later operation on its user.
C15_Witness ==
    /\ last.op \in {"update_subscription", "grant_subscription", "login"}
    /\ \E p \in payments :
         /\ p.status = "completed"
         /\ p.completed_at # None
         /\ p.completed_at.t > p.created_at.t
         /\ \E u \in users : u.id = p.user_id /\ u.subscription_active

\* C16: a create_payment or complete_payment step leaves the users table as
\* it was: no user's subscription_active, subscription_type,
\* subscription_until or any other field changes, whatever tier and
\* day-count the payment names.
C16_PaymentsLeaveUsersAlone ==
    [][ last'.op \in {"create_payment", "complete_payment"} => users' = users ]_vars

\* C16 witness: a payment for a paid tier and a positive day-count has just
\* been completed, and its user's subscription is still inactive, on the
\* default tier and without an until.
C16_Witness ==
    /\ last.op = "complete_payment"
    /\ \E p \in payments :
         /\ p.id = last.args.payment_id
         /\ p.status = "completed"
         /\ p.subscription_type \in SubTypes
         /\ p.subscription_days > 0
         /\ \E u \in users :
              /\ u.id = p.user_id
              /\ ~u.subscription_active
              /\ u.subscription_type = DefaultSubType
              /\ u.subscription_until = None

\* C17 (as claimed): on PostgreSQL, under every interleaving of calls that
\* each run connect() first, create_pool returns at most one pool in the
\* life of the process, and a pool once assigned to Database.pool is never
\* replaced by another.
C17_PoolCreatedOnce ==
    [][ is_postgres => /\ pools_created' <= 1
                       /\ (pool # 0 => pool' = pool) ]_vars

RegistrationsOf(rows, telegram_id) == {r \in rows : r.telegram_id = telegram_id}

\* C18: under every interleaving of concurrent save_registration_state
\* calls, the table holds at most one row per telegram_id; the step in which
\* a call's statement is applied leaves, for its telegram_id, exactly that
\* call's (state, payload) pair and leaves the other rows as they were; and
\* no other step changes the table.  So the row of an id is always the pair
\* of the last save applied for it.
C18_LastSaveWins ==
    [][ /\ \A id \in TelegramIds :
             Cardinality(RegistrationsOf(registration_temp', id)) <= 1
        /\ \A t \in Tasks, id \in TelegramIds :
             ( /\ tasks[t].pc = "execute"
               /\ tasks'[t] = Idle
               /\ tasks[t].telegram_id = id )
             => /\ get_registration_state(id)'
                     = <<Some(tasks[t].state), tasks[t].data>>
                /\ OtherRegistrations(id)' = OtherRegistrations(id)
        /\ (\A t \in Tasks : ~(tasks[t].pc = "execute" /\ tasks'[t] = Idle))
             => registration_temp' = registration_temp
      ]_vars

\* C18 witness: calls for one telegram_id with different states and
\* payloads race: the row written by an earlier call has just been replaced
\* by another call's pair, while a third call, with the earlier pair, is
\* suspended before its statement.
C18_Witness ==
    /\ last.op = "save_registration_state"
    /\ last.before[1] # Absent
    /\ get_registration_state(last.args.telegram_id)
         = <<Some(last.args.state), last.args.data>>
    /\ \E t \in Tasks :
         /\ tasks[t].pc = "execute"
         /\ tasks[t].telegram_id = last.args.telegram_id
         /\ tasks[t].state # last.args.state
         /\ tasks[t].data # last.args.data
         /\ last.before = <<Some(tasks[t].state), tasks[t].data>>

\* C19: a login step that succeeds changes nothing but the last_login of the
\* user whose login it names, which then reads as the call time; a login
\* step that fails (unknown login or wrong password) leaves every row of
\* users as it was; no login step changes another table.
C19_LoginWritesOnlyLastLogin ==
    [][ \A login \in Logins :
          (last'.op = "login" /\ last'.args.login = login)
          => /\ <<users_id_seq, registration_temp, payments, payments_id_seq>>'
                  = <<users_id_seq, registration_temp, payments, payments_id_seq>>
             /\ IF Succeeds(last')
                THEN \E u \in get_user_by_login(login) :
                        \E v \in users' :
                           /\ users' = (users \ {u}) \cup {v}
                           /\ v = [u EXCEPT !.last_login = v.last_login]
                           /\ ReadBack(v.last_login) = datetime(now)
                ELSE users' = users
      ]_vars

\* C19 witness: with two users stored, one has just logged in successfully,
\* not for the first time and after instant 0, and the other's last_login is
\* still NULL.
C19_Witness ==
    /\ last.op = "login"
    /\ last.body.success
    /\ last.body.user.last_login # None
    /\ now > 0
    /\ \E u \in users, w \in users :
         /\ u.login = last.args.login
         /\ ReadBack(u.last_login) = datetime(now)
         /\ w.login # u.login
         /\ w.last_login = None

\* C20 (as claimed): a grant-subscription request for a stored login that is
\* answered 200 stores subscription_until = call time + days whenever the
\* request gives days, days = 0 included, and stores NULL only when the
\* request gives no days.
C20_GrantUntilFromDays ==
    [][ \A login \in Logins :
          ( /\ last'.op = "grant_subscription"
            /\ last'.args.login = login
            /\ last'.status = 200 )
          => \A u \in get_user_by_login(login)' :
               ReadBack(u.subscription_until)
                 = IF last'.args.days.given
                   THEN datetime(now + last'.args.days.n) ELSE None
      ]_vars

C22_UpdateUserReportsMatch ==
    [][ \A telegram_id \in TelegramIds :
          ( /\ last'.op = "update_user"
            /\ last'.args.telegram_id = telegram_id
            /\ ~last'.ret.raised )
          => /\ last'.ret.value = (get_user_by_telegram_id(telegram_id) # {})
             /\ get_user_by_telegram_id(telegram_id) = {} => store' = store
      ]_vars

AssetsOf(held, user_id) == {a \in held : a.public_id = public_id(user_id)}

\* C24: upload_photo_to_cloudinary raises exactly when the upload call to
\* the host fails, and delete_photo_from_cloudinary never raises, whether
\* or not the destroy call fails; an upload that returns leaves exactly one
\* asset under the key of the user id, holding the uploaded file, gives back
\* that key's URL, and leaves the assets of other keys as they were; the
\* host never holds two assets for one user id.
C24_PhotoHostAsymmetry ==
    [][ \A user_id \in 1..MaxId :
          /\ Cardinality(AssetsOf(assets', user_id)) <= 1
          /\ ( /\ last'.op = "upload_photo"
               /\ last'.args.user_id = user_id )
             => /\ last'.ret.raised <=> (last'.fault # "none")
                /\ assets' \ AssetsOf(assets', user_id)
                     = assets \ AssetsOf(assets, user_id)
                /\ ~last'.ret.raised
                     => /\ AssetsOf(assets', user_id)
                             = {[public_id |-> public_id(user_id),
                                 file |-> last'.args.file_path]}
                        /\ last'.ret.url = Some(secure_url(public_id(user_id)))
          /\ ( /\ last'.op = "delete_photo"
               /\ last'.args.user_id = user_id )
             => /\ ~last'.ret.raised
                /\ assets' \ AssetsOf(assets', user_id)
                     = assets \ AssetsOf(assets, user_id)
                /\ last'.fault = "none" => AssetsOf(assets', user_id) = {}
      ]_vars

\* C24 witness: a delete whose destroy call failed has returned normally,
\* leaving in place the single asset of a user, and another user's asset.
C24_Witness ==
    /\ last.op = "delete_photo"
    /\ last.fault = "lost"
    /\ ~last.ret.raised
    /\ Cardinality(AssetsOf(assets, last.args.user_id)) = 1
    /\ Cardinality(assets) = 2

====
